---- MODULE Spec2Model ----
(***************************************************************************)
(* State-machine model of the report scripts of the repository:            *)
(*   src/Dipu_Mandal.py               ("Dipu")   export -> upload -> send  *)
(*   src/engineer_working_hour.py     ("EWH")    export -> upload -> send* *)
(*   src/weekly_engineer_performance_report_explaination/Tanmay_Mondal.py  *)
(*                                    ("Tanmay") export -> analyse ->      *)
(*                                               render -> upload -> send  *)
(* One run of one script is modelled.  Every HTTP request is one action    *)
(* whose response is chosen by the remote service (\E over the responses). *)
(***************************************************************************)
EXTENDS Integers, Sequences, FiniteSets, TLC

VARIABLES
    script,        \* which script is being run
    pc,            \* position of the run in the script
    attempt,       \* loop variable of the token retry loop (range(5))
    attemptLog,    \* history: outcome of every failed grant-exchange attempt
    access_token,  \* value returned by the token provider
    calls,         \* history: number of requests issued, per stage
    sleeps,        \* history: number of time.sleep(5) taken by the poll loop
    job_code,      \* job code of the most recent status response
    content,       \* body of the download response (dr.content)
    file,          \* state of EXPORT_FILE on disk (Dipu, EWH)
    error,         \* exception that ended the run
    response,      \* history: the most recent HTTP response received
    idx,           \* recipients attempted so far by the send loop (EWH)
    successful,    \* send loop counter (EWH)
    failed,        \* send loop counter (EWH)
    data,          \* the analysis record handed to the renderer (Tanmay)
    rendered,      \* what generate_report_pdf put on the page (Tanmay)
    recipients,    \* history: the to_number of every send attempted (EWH)
    waits,         \* history: number of time.sleep taken by the token loop
    wait_time,     \* the most recent wait of the token loop, in 1/10 s
    argv,          \* run_reports: the command-line arguments after the name
    listing,       \* run_reports: os.listdir(script_dir), in directory order
    dpc,           \* run_reports: position of the driver
    start_idx,     \* run_reports: int(sys.argv[1])
    end_idx,       \* run_reports: int(sys.argv[2])
    all_scripts,   \* run_reports: the sorted job list
    batch,         \* run_reports: all_scripts[start_idx:end_idx]
    batch_i,       \* run_reports: loop index i of enumerate(batch)
    log,           \* history: jobs executed and pauses taken, in order
    exit_code      \* run_reports: exit status of the driver process

runVars == <<script, pc, attempt, attemptLog, access_token, calls, sleeps,
             job_code, content, file, error, response, idx, successful,
             failed, data, rendered, recipients, waits, wait_time>>

driverVars == <<argv, listing, dpc, start_idx, end_idx, all_scripts, batch,
                batch_i, log, exit_code>>

vars == <<script, pc, attempt, attemptLog, access_token, calls, sleeps,
          job_code, content, file, error, response, idx, successful,
          failed, data, rendered, recipients, waits, wait_time, argv,
          listing, dpc, start_idx, end_idx, all_scripts, batch, batch_i, log, exit_code>>

(***************************************************************************)
(* Program constants                                                       *)
(***************************************************************************)
max_retries == 5
MAX_POLLS == 120
RATE_LIMITED == 400
COMPLETED == 1004
IN_PROGRESS == {1001, 1002}

(***************************************************************************)
(* Bounds of the model                                                     *)
(***************************************************************************)
NumRecipients == 2

Scripts == {"Dipu", "EWH", "Tanmay"}
FileScripts == {"Dipu", "EWH"}
Stages == {"token", "create", "poll", "download",
           "analyse", "render", "upload", "send"}

\* what the remote services can answer
HttpErrorStatuses == {400, 429, 500}
JobCodes == {0, 1001, 1002, 1003, 1004}
TO_NUMBERS == 1 .. NumRecipients

NoToken == "<none>"
AbsentField == "<absent>"

Resp(kind, status, body) == [kind |-> kind, status |-> status, body |-> body]

TokenResponses ==
    {Resp("ok", 200, t) : t \in {"tok", "", AbsentField}}
    \cup {Resp("http", s, AbsentField) : s \in HttpErrorStatuses}
    \cup {Resp("transport", 0, AbsentField)}

PollResponses ==
    {Resp("ok", 200, c) : c \in JobCodes}
    \cup {Resp("http", 500, 0), Resp("transport", 0, 0)}

CreateResponses ==
    {Resp("ok", 200, j) : j \in {"job", AbsentField}}
    \cup {Resp("http", 500, AbsentField), Resp("transport", 0, AbsentField)}

UploadResponses ==
    {Resp("ok", 200, m) : m \in {"media", AbsentField}}
    \cup {Resp("http", 500, AbsentField), Resp("transport", 0, AbsentField)}

SendResponses ==
    {Resp("ok", 200, "sent"), Resp("http", 500, AbsentField),
     Resp("transport", 0, AbsentField)}

AnalysisOutcomes == {"json", "bad_json", "api_error"}

DownloadResponses ==
    {Resp("ok", 200, b) : b \in {"pdf", "empty"}}
    \cup {Resp("http", 500, "none"), Resp("transport", 0, "none")}

(***************************************************************************)
(* Exceptions                                                              *)
(***************************************************************************)
Err(type, status, stage, att) ==
    [type |-> type, status |-> status, stage |-> stage, attempt |-> att]
NoError == Err("none", 0, "none", 0)

\* requests: raise_for_status() / a failed connection
RequestError(resp, stage, att) ==
    IF resp.kind = "http"
    THEN Err("HTTPError", resp.status, stage, att)
    ELSE Err("RequestException", 0, stage, att)

(***************************************************************************)
(* Initial state: a fresh process of one of the scripts.  EXPORT_FILE may  *)
(* be left over from an earlier run of the same script.                    *)
(***************************************************************************)
NoData == [absent |-> TRUE]
NoRender == [built |-> FALSE]
NoResponse == [stage |-> "none", kind |-> "none", status |-> 0]

\* the script was started by hand: no batch driver is involved
NoDriver ==
    /\ argv = <<>>
    /\ listing = <<>>
    /\ dpc = "none"
    /\ start_idx = 0
    /\ end_idx = 0
    /\ all_scripts = <<>>
    /\ batch = <<>>
    /\ batch_i = 0
    /\ log = <<>>
    /\ exit_code = -1

Init ==
    /\ script \in Scripts
    /\ pc = "start"
    /\ attempt = 0
    /\ attemptLog = <<>>
    /\ access_token = NoToken
    /\ calls = [s \in Stages |-> 0]
    /\ sleeps = 0
    /\ job_code = -1
    /\ content = "none"
    /\ file \in IF script \in FileScripts THEN {"missing", "stale"} ELSE {"missing"}
    /\ error = NoError
    /\ response = NoResponse
    /\ idx = 0
    /\ successful = 0
    /\ failed = 0
    /\ data = NoData
    /\ rendered = NoRender
    /\ recipients = <<>>
    /\ waits = 0
    /\ wait_time = 0
    /\ NoDriver

\* r.raise_for_status() raises on a 4xx/5xx answer; a request that gets no
\* answer raises in requests.get / requests.post itself
RequestFails_StatusIgnored(resp) == resp.kind = "transport"

RequestFails(resp) == resp.kind # "ok"

Called(stage) == calls' = [calls EXCEPT ![stage] = @ + 1]

\* a request of `stage` was sent and `resp` came back
Sent(stage, resp) ==
    /\ Called(stage)
    /\ response' = [stage |-> stage, kind |-> resp.kind, status |-> resp.status]

\* an uncaught exception ends the process
Raise(e) ==
    /\ pc' = "failed"
    /\ error' = e

(***************************************************************************)
(* Entry points                                                            *)
(***************************************************************************)
\* Dipu_Mandal.main / engineer_working_hour.main: random initial delay, then
\* the export function is entered.
main ==
    /\ pc = "start"
    /\ script \in FileScripts
    /\ pc' = "token"
    /\ UNCHANGED <<response, script, attempt, attemptLog, access_token, calls, sleeps,
                   job_code, content, file, error, idx, successful, failed,
                   data, rendered>>
    /\ UNCHANGED driverVars
    /\ UNCHANGED recipients
    /\ UNCHANGED <<waits, wait_time>>

\* Tanmay_Mondal.run_pipeline: banner, then fetch_zoho_pdf is entered.
run_pipeline ==
    /\ pc = "start"
    /\ script = "Tanmay"
    /\ pc' = "token"
    /\ UNCHANGED <<response, script, attempt, attemptLog, access_token, calls, sleeps,
                   job_code, content, file, error, idx, successful, failed,
                   data, rendered>>
    /\ UNCHANGED driverVars
    /\ UNCHANGED recipients
    /\ UNCHANGED <<waits, wait_time>>

(***************************************************************************)
(* Token acquisition                                                       *)
(***************************************************************************)
\* random.uniform(0.5, 2.0), in tenths of a second: the ends and a value
\* between them
Jitters == {5, 12, 20}

BackoffWait_ExponentOffByOne(att, jitter) == (2 ^ (att + 1)) * 10 + jitter

\* wait_time = (2 ** attempt) + jitter
BackoffWait(att, jitter) == (2 ^ att) * 10 + jitter

\* if attempt > 0: time.sleep(wait_time), at the start of the iteration
WaitBeforeAttempt ==
    IF attempt > 0
    THEN /\ waits' = waits + 1
         /\ \E jitter \in Jitters : wait_time' = BackoffWait(attempt, jitter)
    ELSE UNCHANGED <<waits, wait_time>>

RetryHTTPError_AnyStatus(status, att) ==
    att < max_retries - 1

\* except requests.exceptions.HTTPError: retry iff 400 and attempts remain
RetryHTTPError(status, att) ==
    status = RATE_LIMITED /\ att < max_retries - 1

\* except requests.exceptions.RequestException: retry iff attempts remain
RetryRequestException(att) ==
    att < max_retries - 1

\* `continue` of the for loop; falling out of range(5) reaches the
\* RuntimeError after the loop.
ContinueTokenLoop(resp) ==
    /\ attemptLog' = Append(attemptLog, [kind |-> resp.kind, status |-> resp.status])
    /\ IF attempt + 1 < max_retries
       THEN /\ attempt' = attempt + 1
            /\ UNCHANGED <<pc, error>>
       ELSE /\ Raise(Err("RuntimeError", 0, "token", attempt + 1))
            /\ UNCHANGED attempt
    /\ UNCHANGED access_token

\* `raise` inside the except clause: the attempt's own exception propagates
ReraiseTokenError(resp) ==
    /\ attemptLog' = Append(attemptLog, [kind |-> resp.kind, status |-> resp.status])
    /\ Raise(RequestError(resp, "token", attempt + 1))
    /\ UNCHANGED <<attempt, access_token>>

\* return r.json()["access_token"]  (Dipu, EWH): no check of the value
ReturnTokenUnchecked(resp) ==
    IF resp.body = AbsentField
    THEN /\ Raise(Err("KeyError", 0, "token", attempt + 1))
         /\ UNCHANGED <<attempt, attemptLog, access_token>>
    ELSE /\ access_token' = resp.body
         /\ pc' = "create"
         /\ UNCHANGED <<attempt, attemptLog, error>>

\* token = r.json().get("access_token"); if not token: raise ValueError
ReturnTokenChecked(resp) ==
    IF resp.body \in {AbsentField, ""}
    THEN /\ Raise(Err("ValueError", 0, "token", attempt + 1))
         /\ UNCHANGED <<attempt, attemptLog, access_token>>
    ELSE /\ access_token' = resp.body
         /\ pc' = "create"
         /\ UNCHANGED <<attempt, attemptLog, error>>

\* Dipu_Mandal.zoho_get_access_token, engineer_working_hour.zoho_get_access_token
zoho_get_access_token ==
    /\ pc = "token"
    /\ script \in FileScripts
    /\ \E resp \in TokenResponses :
         /\ Sent("token", resp)
         /\ CASE resp.kind = "ok" -> ReturnTokenUnchecked(resp)
              [] resp.kind = "http" ->
                   IF RetryHTTPError(resp.status, attempt)
                   THEN ContinueTokenLoop(resp)
                   ELSE ReraiseTokenError(resp)
              [] resp.kind = "transport" ->
                   IF RetryRequestException(attempt)
                   THEN ContinueTokenLoop(resp)
                   ELSE ReraiseTokenError(resp)
    /\ UNCHANGED <<script, sleeps, job_code, content, file, idx, successful,
                   failed, data, rendered>>
    /\ UNCHANGED driverVars
    /\ UNCHANGED recipients
    /\ WaitBeforeAttempt

\* Tanmay_Mondal.get_zoho_access_token: only requests.HTTPError is caught
get_zoho_access_token ==
    /\ pc = "token"
    /\ script = "Tanmay"
    /\ \E resp \in TokenResponses :
         /\ Sent("token", resp)
         /\ CASE resp.kind = "ok" -> ReturnTokenChecked(resp)
              [] resp.kind = "http" ->
                   IF RetryHTTPError(resp.status, attempt)
                   THEN ContinueTokenLoop(resp)
                   ELSE ReraiseTokenError(resp)
              [] resp.kind = "transport" -> ReraiseTokenError(resp)
    /\ UNCHANGED <<script, sleeps, job_code, content, file, idx, successful,
                   failed, data, rendered>>
    /\ UNCHANGED driverVars
    /\ UNCHANGED recipients
    /\ WaitBeforeAttempt

(***************************************************************************)
(* Bulk export: create job, poll, download                                 *)
(***************************************************************************)
\* cr = requests.get(create_url, ...); cr.raise_for_status();
\* job_id = cr.json()["data"]["jobId"]
create_job ==
    /\ pc = "create"
    /\ \E resp \in CreateResponses :
         /\ Sent("create", resp)
         /\ IF RequestFails(resp)
            THEN Raise(RequestError(resp, "create", 0))
            ELSE IF resp.body = AbsentField
                 THEN Raise(Err("KeyError", 0, "create", 0))
                 ELSE pc' = "poll" /\ UNCHANGED error
    /\ UNCHANGED <<script, attempt, attemptLog, access_token, sleeps, job_code,
                   content, file, idx, successful, failed, data, rendered>>
    /\ UNCHANGED driverVars
    /\ UNCHANGED recipients
    /\ UNCHANGED <<waits, wait_time>>

PollDecision_CompletedKeepsPolling(code) ==
    IF code \in IN_PROGRESS \cup {COMPLETED} THEN "continue" ELSE "raise"

\* the three-way branch of the poll loop body on the job code
PollDecision(code) ==
    IF code \in IN_PROGRESS THEN "continue"
    ELSE IF code = COMPLETED THEN "break"
    ELSE "raise"

AfterContinue_ReacquiresToken(polls) ==
    IF polls < MAX_POLLS THEN "token" ELSE "download"

\* for _ in range(120): the loop variable after an iteration that continues;
\* an exhausted range leaves the loop and control reaches the download.
AfterContinue(polls) ==
    IF polls < MAX_POLLS THEN "poll" ELSE "download"

\* one iteration of the poll loop
poll_job ==
    /\ pc = "poll"
    /\ \E resp \in PollResponses :
         /\ Sent("poll", resp)
         /\ IF RequestFails(resp)
            THEN /\ Raise(RequestError(resp, "poll", 0))
                 /\ UNCHANGED <<job_code, sleeps>>
            ELSE /\ job_code' = resp.body
                 /\ CASE PollDecision(resp.body) = "continue" ->
                           /\ sleeps' = sleeps + 1
                           /\ pc' = AfterContinue(calls["poll"] + 1)
                           /\ UNCHANGED error
                      [] PollDecision(resp.body) = "break" ->
                           /\ pc' = "download"
                           /\ UNCHANGED <<sleeps, error>>
                      [] OTHER ->
                           /\ Raise(Err("RuntimeError", resp.body, "poll", 0))
                           /\ UNCHANGED sleeps
    /\ UNCHANGED <<script, attempt, attemptLog, access_token, content, file,
                   idx, successful, failed, data, rendered>>
    /\ UNCHANGED driverVars
    /\ UNCHANGED recipients
    /\ UNCHANGED <<waits, wait_time>>

\* Dipu, EWH: dr.raise_for_status(); EXPORT_FILE.write_bytes(dr.content);
\* the function returns to main
zoho_bulk_export_pdf_download ==
    /\ pc = "download"
    /\ script \in FileScripts
    /\ \E resp \in DownloadResponses :
         /\ Sent("download", resp)
         /\ IF RequestFails(resp)
            THEN /\ Raise(RequestError(resp, "download", 0))
                 /\ UNCHANGED <<content, file>>
            ELSE /\ content' = resp.body
                 /\ file' = resp.body
                 /\ pc' = "verify"
                 /\ UNCHANGED error
    /\ UNCHANGED <<script, attempt, attemptLog, access_token, sleeps, job_code,
                   idx, successful, failed, data, rendered>>
    /\ UNCHANGED driverVars
    /\ UNCHANGED recipients
    /\ UNCHANGED <<waits, wait_time>>

\* Tanmay: dr.raise_for_status(); return dr.content
fetch_zoho_pdf_download ==
    /\ pc = "download"
    /\ script = "Tanmay"
    /\ \E resp \in DownloadResponses :
         /\ Sent("download", resp)
         /\ IF RequestFails(resp)
            THEN /\ Raise(RequestError(resp, "download", 0))
                 /\ UNCHANGED content
            ELSE /\ content' = resp.body
                 /\ pc' = "analyse"
                 /\ UNCHANGED error
    /\ UNCHANGED <<script, attempt, attemptLog, access_token, sleeps, job_code,
                   file, idx, successful, failed, data, rendered>>
    /\ UNCHANGED driverVars
    /\ UNCHANGED recipients
    /\ UNCHANGED <<waits, wait_time>>

\* main: if not EXPORT_FILE.exists() or EXPORT_FILE.stat().st_size == 0
ExportFileBad(f) == f = "missing" \/ f = "empty"

verify_export ==
    /\ pc = "verify"
    /\ IF ExportFileBad(file)
       THEN Raise(Err("RuntimeError", 0, "verify", 0))
       ELSE pc' = "upload" /\ UNCHANGED error
    /\ UNCHANGED <<response, script, attempt, attemptLog, access_token, calls, sleeps,
                   job_code, content, file, idx, successful, failed, data,
                   rendered>>
    /\ UNCHANGED driverVars
    /\ UNCHANGED recipients
    /\ UNCHANGED <<waits, wait_time>>

(***************************************************************************)
(* Analysis records (Tanmay).  A record is a dict: a function whose domain *)
(* is the set of keys present.  Percentages are fixed-point numbers in     *)
(* hundredths of a percent (7143 is 71.43).                                *)
(***************************************************************************)
TopKeys == {"total_score", "max_possible", "percentage"}
Totals == {0, 49, 50, 56, 70, 80}
Maxes == {70, 100}
Percentages == {0, 5000, 6999, 7000, 7143, 7999, 8000, 10000}

FieldValues(k) ==
    CASE k = "total_score" -> Totals
      [] k = "max_possible" -> Maxes
      [] OTHER -> Percentages

\* dict.get(key, default)
Get(d, k, default) == IF k \in DOMAIN d THEN d[k] ELSE default

RecordsOver(K) ==
    {f \in [K -> Totals \cup Maxes \cup Percentages] :
        \A k \in K : f[k] \in FieldValues(k)}

\* the records the analysis step can hand over: any subset of the keys, the
\* total never above the maximum it is scored against
Records ==
    {r \in UNION {RecordsOver(K) : K \in SUBSET TopKeys} :
        Get(r, "total_score", 0) <= Get(r, "max_possible", 100)}

SampleRecords ==
    {r \in Records :
        \/ DOMAIN r = {}
        \/ /\ DOMAIN r = TopKeys
           /\ r["total_score"] = 56 /\ r["max_possible"] = 70
           /\ r["percentage"] \in {8000, 7000}}

(***************************************************************************)
(* The sections of a record.  Each family below varies one part of the     *)
(* record over all its shapes (keys present or missing, lists empty or     *)
(* not) and keeps the other parts at one value.                            *)
(***************************************************************************)
MaxDays == 2

EmptyDict == [k \in {} |-> 0]

\* a key that is missing, or present with one of the values of S
Opt(k, S) == {EmptyDict} \cup {k :> v : v \in S}

\* a list that is missing, empty, or one of the lists of S
OptList(k, S) == Opt(k, {<<>>} \cup S)

Week1Totals == {40, 56, 60}
SectionScores == {0, 4, 5, 7, 8, 14, 15, 20}
Week1Scores == {0, 6, 20}
RepeatScores == {0, 20, 30}
RepeatMaxScores == {20, 30}
RepeatCounts == {0, 2}
FeedbackScores == {0, 19, 20, 30}
Ratings == {5, 6, 8}
Statuses == {"absent", "Absent", "ABSENT", "exceptional", "present"}
Hours == {"08:30", "00:00"}
Qualities == {"good", "average", "poor"}

DayEntries ==
    {("day" :> "Monday") @@ st @@ h :
        st \in Opt("status", Statuses), h \in Opt("hours", Hours)}

DayLists ==
    UNION {[1 .. n -> DayEntries] : n \in 1 .. MaxDays}

ExampleEntries ==
    {("company" :> "ACME") @@ q : q \in Opt("quality_assessment", Qualities)}

RatingEntries ==
    {("company" :> "ACME") @@ r : r \in Opt("rating", Ratings)}

CallEntries == {("company" :> "ACME") @@ ("issue_type" :> "calibration")}

FullSummary ==
    ("total_score" :> 56) @@ ("max_possible" :> 70) @@ ("percentage" :> 8000)
    @@ ("week1_total" :> 40)

\* rollups and the feedback flag
SummaryRecords ==
    {r @@ w @@ fb :
        r \in Records,
        w \in Opt("week1_total", Week1Totals),
        fb \in Opt("feedback", {"applicable" :> FALSE, "applicable" :> TRUE})}

WorkingHoursRecords ==
    {FullSummary @@ ("working_hours" :> (sc @@ w1 @@ days)) :
        sc \in Opt("score", {14, 15}),
        w1 \in Opt("week1_score", {0, 20}),
        days \in OptList("days", DayLists)}

FormQualityRecords ==
    {FullSummary @@ ("form_quality" :> (sc @@ w1 @@ ex)) :
        sc \in Opt("score", SectionScores),
        w1 \in Opt("week1_score", Week1Scores),
        ex \in OptList("examples", {<<e>> : e \in ExampleEntries})}

FeedbackRecords ==
    {FullSummary @@ ("feedback" :> (ap @@ sc @@ rt)) :
        ap \in Opt("applicable", BOOLEAN),
        sc \in Opt("score", FeedbackScores),
        rt \in OptList("ratings", {<<e>> : e \in RatingEntries})}

RepeatCallsRecords ==
    {FullSummary @@ ("repeat_calls" :> (sc @@ mx @@ ct @@ cl)) :
        sc \in Opt("score", RepeatScores),
        mx \in Opt("max_score", RepeatMaxScores),
        ct \in Opt("count", RepeatCounts),
        cl \in OptList("calls", {<<e>> : e \in CallEntries})}

\* records with sections or free-text lists missing altogether
SparseRecords ==
    {st @@ wk @@ wh @@ fq @@ fb @@ rc :
        st \in OptList("strengths", {<<"punctual">>}),
        wk \in OptList("weaknesses", {<<"paperwork">>}),
        wh \in Opt("working_hours", {EmptyDict}),
        fq \in Opt("form_quality", {EmptyDict}),
        fb \in Opt("feedback", {EmptyDict, "applicable" :> FALSE}),
        rc \in Opt("repeat_calls", {EmptyDict})}

PerformanceRecords ==
    SummaryRecords \cup WorkingHoursRecords \cup FormQualityRecords
    \cup FeedbackRecords \cup RepeatCallsRecords \cup SparseRecords

(***************************************************************************)
(* generate_report_pdf: the executive summary                              *)
(***************************************************************************)
C_GREEN == "#27AE60"
C_ORANGE == "#F39C12"
C_RED == "#E74C3C"

\* a whole percentage as a fixed-point number
Percent(n) == n * 100

\* f"{pct:.1f}": the value rounded to one decimal, in tenths of a percent
Format1f(pct) == (pct + 5) \div 10

StatusText_BoundaryExcluded(pct) ==
    IF pct > Percent(80) THEN "EXCELLENT"
    ELSE IF pct > Percent(70) THEN "ACCEPTABLE - IMPROVEMENT NEEDED"
    ELSE "BELOW STANDARD - URGENT ACTION REQUIRED"

\* if pct >= 80 ... elif pct >= 70 ... else
StatusText(pct) ==
    IF pct >= Percent(80) THEN "EXCELLENT"
    ELSE IF pct >= Percent(70) THEN "ACCEPTABLE - IMPROVEMENT NEEDED"
    ELSE "BELOW STANDARD - URGENT ACTION REQUIRED"

BannerColor(pct) ==
    IF pct >= Percent(80) THEN C_GREEN
    ELSE IF pct >= Percent(70) THEN C_ORANGE
    ELSE C_RED

\* pct = data.get("percentage", 0)
ReportPercentage(d) == Get(d, "percentage", 0)

(***************************************************************************)
(* generate_report_pdf: text conversions                                   *)
(***************************************************************************)
\* str.lower() on the status strings of the model
Lower(str) ==
    CASE str \in {"Absent", "ABSENT"} -> "absent"
      [] OTHER -> str

Abs(x) == IF x >= 0 THEN x ELSE -x

\* f"{x:+d}": a sign, always written, and the digits of the magnitude
FormatPlusD(x) == <<IF x >= 0 THEN "+" ELSE "-", Abs(x)>>

\* delta_s = f"+{delta}" if delta >= 0 else str(delta)
DeltaS(delta) ==
    IF delta >= 0 THEN <<"+", delta>> ELSE <<"-", Abs(delta)>>

(***************************************************************************)
(* generate_report_pdf: page 1, metric cards and comparison table          *)
(***************************************************************************)
Section(d, k) == Get(d, k, EmptyDict)

\* _card_col(title, score, max_s, status_txt, good)
CardCol(title, score, max_s, status_txt, good) ==
    [title |-> title, score |-> score, max_s |-> max_s,
     status_txt |-> status_txt,
     clr |-> IF good THEN "#27AE60" ELSE "#E74C3C"]

wh_good(d) == Get(Section(d, "working_hours"), "score", 0) >= 15
fq_good(d) == Get(Section(d, "form_quality"), "score", 0) >= 8
fb_applicable(d) == Get(Section(d, "feedback"), "applicable", TRUE)
fb_good(d) ==
    fb_applicable(d) /\ Get(Section(d, "feedback"), "score", 0) >= 20
rc_good(d) == Get(Section(d, "repeat_calls"), "score", 0) = 30

Cards(d) ==
    LET wh == Section(d, "working_hours")
        fq == Section(d, "form_quality")
        fb == Section(d, "feedback")
        rc == Section(d, "repeat_calls")
    IN  [wh |-> CardCol("WORKING HOURS", Get(wh, "score", 0),
                        Get(wh, "max_score", 20),
                        IF wh_good(d) THEN "PERFECT" ELSE "NEEDS WORK",
                        wh_good(d)),
         fq |-> CardCol("FORM QUALITY", Get(fq, "score", 0),
                        Get(fq, "max_score", 20),
                        IF fq_good(d) THEN "GOOD" ELSE "CRITICAL",
                        fq_good(d)),
         fb |-> CardCol("FEEDBACK",
                        IF fb_applicable(d) THEN <<Get(fb, "score", 0)>>
                                            ELSE <<"N/A">>,
                        IF fb_applicable(d) THEN <<30>> ELSE <<"-">>,
                        IF ~fb_applicable(d) THEN "N/A"
                        ELSE IF fb_good(d) THEN "GOOD" ELSE "LOW",
                        fb_good(d)),
         rc |-> CardCol("REPEAT CALLS", Get(rc, "score", 0),
                        Get(rc, "max_score", 30),
                        IF rc_good(d) THEN "PERFECT" ELSE "HAS REPEATS",
                        rc_good(d))]

\* the week comparison table: the Change column and the TOTAL row
TotalDelta_Reversed(total, w1_total) == w1_total - total

\* delta = total - w1_total
TotalDelta(total, w1_total) == total - w1_total

SectionDelta(sec) == Get(sec, "score", 0) - Get(sec, "week1_score", 0)

Comparison(d) ==
    LET total == Get(d, "total_score", 0)
        max_pts == Get(d, "max_possible", 100)
        w1_total == Get(d, "week1_total", 0)
        w1_max == Get(d, "week1_max", 70)
        w1_pct == IF w1_max # 0
                  THEN (w1_total * Percent(100)) \div w1_max ELSE 0
    IN  [wh_change |-> FormatPlusD(SectionDelta(Section(d, "working_hours"))),
         fq_change |-> FormatPlusD(SectionDelta(Section(d, "form_quality"))),
         week1_total |-> <<w1_total, w1_max, Format1f(w1_pct)>>,
         week2_total |-> <<total, max_pts, Format1f(ReportPercentage(d))>>,
         total_change |-> DeltaS(TotalDelta(total, w1_total))]

(***************************************************************************)
(* generate_report_pdf: page 2, working hours and form quality             *)
(***************************************************************************)
\* the Status cell of a day row
DayFlag(day) ==
    LET h == Get(day, "hours", "-")
        status == Lower(Get(day, "status", ""))
    IN  IF status = "absent" THEN <<"ABSENT">>
        ELSE IF status = "exceptional" THEN <<"EXCEPTIONAL!", h>>
        ELSE <<h>>

DayRowBackground_CaseSensitive(day) ==
    IF Get(day, "status", "") = "absent" THEN "#FFE5E5" ELSE "#E8F5E9"

\* the BACKGROUND style appended for the row (the second loop over the days)
DayRowBackground(day) ==
    IF Lower(Get(day, "status", "")) = "absent" THEN "#FFE5E5" ELSE "#E8F5E9"

DayRows(d) ==
    LET days == Get(Section(d, "working_hours"), "days", <<>>)
    IN  [i \in 1 .. Len(days) |->
            [hours |-> Get(days[i], "hours", "-"),
             flag |-> DayFlag(days[i]),
             bg |-> DayRowBackground(days[i])]]

\* fq_color = C_GREEN if fq_score >= 8 else (C_ORANGE if fq_score >= 5 else C_RED)
fq_color(fq_score) ==
    IF fq_score >= 8 THEN C_GREEN
    ELSE IF fq_score >= 5 THEN C_ORANGE
    ELSE C_RED

ExampleBlocks(d) ==
    LET ex == Get(Section(d, "form_quality"), "examples", <<>>)
        qa(e) == Lower(Get(e, "quality_assessment", ""))
    IN  [i \in 1 .. Len(ex) |->
            [bg |-> IF qa(ex[i]) \in {"poor", "critical"} THEN "#FFE5E5"
                    ELSE IF qa(ex[i]) = "average" THEN "#FFF9E6"
                    ELSE "#E8F5E9",
             hdr_bg |-> IF qa(ex[i]) \in {"poor", "critical"} THEN "#FFCCCC"
                        ELSE IF qa(ex[i]) = "average" THEN "#FFE5B4"
                        ELSE "#CCEECC"]]

Page2(d) ==
    LET fq_score == Get(Section(d, "form_quality"), "score", 0)
    IN  <<"DETAILED PERFORMANCE BREAKDOWN", "1. WORKING HOURS", "days_table",
          "wh_analysis", "2. FORM QUALITY">>
        \o (IF fq_score < 5 THEN <<"fq_critical_banner">> ELSE <<>>)
        \o <<"fq_examples_label">>
        \o [i \in 1 .. Len(ExampleBlocks(d)) |-> "fq_example"]

(***************************************************************************)
(* generate_report_pdf: page 3, feedback and repeat calls                  *)
(***************************************************************************)
RatingRows(d) ==
    LET ratings == Get(Section(d, "feedback"), "ratings", <<>>)
        rt(r) == Get(r, "rating", 0)
    IN  [i \in 1 .. Len(ratings) |->
            [rating |-> rt(ratings[i]),
             clr |-> IF rt(ratings[i]) >= 8 THEN "#27AE60"
                     ELSE IF rt(ratings[i]) >= 6 THEN "#F39C12"
                     ELSE "#E74C3C"]]

\* total score would be {total+21}/{max_pts+30} = {...:.1f}%
AdjustedNote(d) ==
    LET total == Get(d, "total_score", 0)
        max_pts == Get(d, "max_possible", 100)
    IN  <<total + 21, max_pts + 30,
          Format1f(((total + 21) * Percent(100)) \div (max_pts + 30))>>

FeedbackBlocks_EmptyTable(d) ==
    IF ~fb_applicable(d)
    THEN <<"fb_na_banner", "fb_na_box">>
    ELSE <<"ratings_table">>

\* if not fb_applicable: banner and box; else: the table, if ratings
FeedbackBlocks(d) ==
    IF ~fb_applicable(d)
    THEN <<"fb_na_banner", "fb_na_box">>
    ELSE IF Len(RatingRows(d)) > 0 THEN <<"ratings_table">> ELSE <<>>

\* if rc_score == 30: success banner and box; else: banner with the count
\* and the table, if calls
RepeatBlocks(d) ==
    LET rc == Section(d, "repeat_calls")
    IN  IF Get(rc, "score", 0) = 30
        THEN <<"rc_zero_banner", "rc_zero_box">>
        ELSE <<"rc_repeat_banner">>
             \o (IF Len(Get(rc, "calls", <<>>)) > 0
                 THEN <<"calls_table">> ELSE <<>>)

Page3(d) ==
    <<"3. CUSTOMER FEEDBACK">> \o FeedbackBlocks(d)
    \o <<"4. REPEAT CALLS">> \o RepeatBlocks(d)

Page1 ==
    <<"title", "subtitle", "EXECUTIVE SUMMARY", "cards",
      "WEEK-OVER-WEEK COMPARISON", "cmp_table", "KEY INSIGHTS", "insights">>

\* els, the flowables handed to doc.build (spacers left out)
Elements(d) ==
    Page1 \o <<"PageBreak">> \o Page2(d) \o <<"PageBreak">> \o Page3(d)

RenderReport(d) ==
    LET total == Get(d, "total_score", 0)
        max_pts == Get(d, "max_possible", 100)
        pct == ReportPercentage(d)
        rc == Section(d, "repeat_calls")
        fq_score == Get(Section(d, "form_quality"), "score", 0)
    IN  [built |-> TRUE,
         score_label |-> <<total, max_pts>>,
         pct_text |-> Format1f(pct),
         status_text |-> StatusText(pct),
         banner_color |-> BannerColor(pct),
         cards |-> Cards(d),
         cmp |-> Comparison(d),
         insights |-> <<Get(d, "strengths", <<>>), Get(d, "weaknesses", <<>>)>>,
         day_rows |-> DayRows(d),
         wh_analysis |-> FormatPlusD(SectionDelta(Section(d, "working_hours"))),
         fq_color |-> fq_color(fq_score),
         examples |-> ExampleBlocks(d),
         ratings |-> RatingRows(d),
         fb_note |-> IF fb_applicable(d) THEN <<>> ELSE AdjustedNote(d),
         rc_color |-> IF Get(rc, "score", 0) = 30 THEN C_GREEN ELSE C_RED,
         rc_count |-> Get(rc, "count", 0),
         els |-> Elements(d)]

(***************************************************************************)
(* Later stages of the run                                                 *)
(***************************************************************************)
\* Tanmay: analyse_pdf_with_claude(pdf_bytes): the API call may raise, the
\* text may not be JSON (json.loads raises), else the parsed record is returned
analyse_pdf_with_claude ==
    /\ pc = "analyse"
    /\ Called("analyse")
    /\ \E out \in AnalysisOutcomes :
         CASE out = "api_error" ->
                Raise(Err("APIError", 0, "analyse", 0)) /\ UNCHANGED data
           [] out = "bad_json" ->
                Raise(Err("JSONDecodeError", 0, "analyse", 0)) /\ UNCHANGED data
           [] OTHER ->
                /\ data' \in SampleRecords
                /\ pc' = "render"
                /\ UNCHANGED error
    /\ UNCHANGED <<response, script, attempt, attemptLog, access_token, sleeps, job_code,
                   content, file, idx, successful, failed, rendered>>
    /\ UNCHANGED driverVars
    /\ UNCHANGED recipients
    /\ UNCHANGED <<waits, wait_time>>

\* Tanmay: generate_report_pdf(data, output_path); doc.build writes the file
generate_report_pdf ==
    /\ pc = "render"
    /\ Called("render")
    /\ \E written \in BOOLEAN :
         IF written
         THEN /\ rendered' = RenderReport(data)
              /\ pc' = "upload"
              /\ UNCHANGED error
         ELSE /\ Raise(Err("OSError", 0, "render", 0))
              /\ UNCHANGED rendered
    /\ UNCHANGED <<response, script, attempt, attemptLog, access_token, sleeps, job_code,
                   content, file, idx, successful, failed, data>>
    /\ UNCHANGED driverVars
    /\ UNCHANGED recipients
    /\ UNCHANGED <<waits, wait_time>>

\* wa_upload_media / upload_media_to_whatsapp: r.raise_for_status();
\* media_id = r.json()["id"]
upload_media ==
    /\ pc = "upload"
    /\ \E resp \in UploadResponses :
         /\ Sent("upload", resp)
         /\ IF RequestFails(resp)
            THEN Raise(RequestError(resp, "upload", 0))
            ELSE IF resp.body = AbsentField
                 THEN Raise(Err("KeyError", 0, "upload", 0))
                 ELSE pc' = "send" /\ UNCHANGED error
    /\ UNCHANGED <<script, attempt, attemptLog, access_token, sleeps, job_code,
                   content, file, idx, successful, failed, data, rendered>>
    /\ UNCHANGED driverVars
    /\ UNCHANGED recipients
    /\ UNCHANGED <<waits, wait_time>>

\* Dipu: wa_send_template_with_document; Tanmay: send_whatsapp_template.
\* One recipient, r.raise_for_status() uncaught.
send_template ==
    /\ pc = "send"
    /\ script \in {"Dipu", "Tanmay"}
    /\ \E resp \in SendResponses :
         /\ Sent("send", resp)
         /\ IF RequestFails(resp)
            THEN Raise(RequestError(resp, "send", 0))
            ELSE pc' = "done" /\ UNCHANGED error
    /\ UNCHANGED <<script, attempt, attemptLog, access_token, sleeps, job_code,
                   content, file, idx, successful, failed, data, rendered>>
    /\ UNCHANGED driverVars
    /\ UNCHANGED recipients
    /\ UNCHANGED <<waits, wait_time>>

SendCounts_FailureNotCounted(resp, s, f) ==
    IF resp.kind = "ok" THEN <<s + 1, f>> ELSE <<s, f>>

\* successful += 1 after the send returned; failed += 1 in except Exception
SendCounts(resp, s, f) ==
    IF resp.kind = "ok" THEN <<s + 1, f>> ELSE <<s, f + 1>>

\* EWH: one iteration of `for idx, to_number in enumerate(TO_NUMBERS, 1)`;
\* an exception of the send is caught and counted
send_to_recipient ==
    /\ pc = "send"
    /\ script = "EWH"
    /\ idx < Cardinality(TO_NUMBERS)
    /\ idx' = idx + 1
    /\ recipients' = Append(recipients, idx')
    /\ \E resp \in SendResponses :
         /\ Sent("send", resp)
         /\ successful' = SendCounts(resp, successful, failed)[1]
         /\ failed' = SendCounts(resp, successful, failed)[2]
    /\ UNCHANGED <<script, pc, attempt, attemptLog, access_token, sleeps,
                   job_code, content, file, error, data, rendered>>
    /\ UNCHANGED driverVars
    /\ UNCHANGED <<waits, wait_time>>

\* EWH: the loop is exhausted, the summary is printed and main returns
send_summary ==
    /\ pc = "send"
    /\ script = "EWH"
    /\ idx = Cardinality(TO_NUMBERS)
    /\ pc' = "done"
    /\ UNCHANGED <<response, script, attempt, attemptLog, access_token, calls, sleeps,
                   job_code, content, file, error, idx, successful, failed,
                   data, rendered>>
    /\ UNCHANGED driverVars
    /\ UNCHANGED recipients
    /\ UNCHANGED <<waits, wait_time>>

(***************************************************************************)
(* Specification of one run of one script                                  *)
(***************************************************************************)
Next ==
    \/ main
    \/ run_pipeline
    \/ zoho_get_access_token
    \/ get_zoho_access_token
    \/ create_job
    \/ poll_job
    \/ zoho_bulk_export_pdf_download
    \/ fetch_zoho_pdf_download
    \/ verify_export
    \/ analyse_pdf_with_claude
    \/ generate_report_pdf
    \/ upload_media
    \/ send_template
    \/ send_to_recipient
    \/ send_summary

Spec == Init /\ [][Next]_vars

\* the run is a process that keeps executing: every request is answered or
\* times out (timeout=60 / timeout=120), every sleep ends
SpecFair == Init /\ [][Next]_vars /\ WF_vars(Next)

(***************************************************************************)
(* Specification of the renderer alone: a run of Tanmay that has reached   *)
(* generate_report_pdf with any record of Records.                         *)
(***************************************************************************)
InitRender ==
    /\ script = "Tanmay"
    /\ pc = "render"
    /\ attempt = 0
    /\ attemptLog = <<>>
    /\ access_token = "tok"
    /\ calls = [s \in Stages |->
                  IF s \in {"token", "create", "poll", "download", "analyse"}
                  THEN 1 ELSE 0]
    /\ sleeps = 0
    /\ job_code = COMPLETED
    /\ content = "pdf"
    /\ file = "missing"
    /\ error = NoError
    /\ response = [stage |-> "download", kind |-> "ok", status |-> 200]
    /\ idx = 0
    /\ successful = 0
    /\ failed = 0
    /\ data \in PerformanceRecords
    /\ rendered = NoRender
    /\ recipients = <<>>
    /\ waits = 0
    /\ wait_time = 0
    /\ NoDriver

NextRender == generate_report_pdf

SpecRender == InitRender /\ [][NextRender]_vars

(***************************************************************************)
(* run_reports.py: the batch driver.  A file name is modelled by its rank  *)
(* in lexicographic order, so that sorting the names is sorting the ranks. *)
(***************************************************************************)
NumScripts == 3
PAUSE_SECONDS == 900

ReportFiles == {[name |-> n, ext |-> "py"] : n \in 1 .. NumScripts}
DriverFile == [name |-> 0, ext |-> "py"]
OtherFiles == {[name |-> NumScripts + 1, ext |-> "pdf"]}

Orderings(S) ==
    {f \in [1 .. Cardinality(S) -> S] :
        \A a, b \in 1 .. Cardinality(S) : f[a] = f[b] => a = b}

\* what os.listdir can return: the driver's own file, any of the report
\* scripts and other files, in any order
Listings ==
    UNION {Orderings({DriverFile} \cup R \cup O) :
              R \in SUBSET ReportFiles, O \in SUBSET OtherFiles}

\* sys.argv[1:]
ArgStrings == {"-1", "0", "1", "2", "5", "x"}
Arguments == UNION {[1 .. n -> ArgStrings] : n \in 0 .. 2}

\* int(s): ValueError unless s is a decimal integer
IsInt(str) == str # "x"

int(str) ==
    CASE str = "-1" -> -1
      [] str = "0" -> 0
      [] str = "1" -> 1
      [] str = "2" -> 2
      [] str = "5" -> 5

RECURSIVE Insert(_, _)
Insert(f, seq) ==
    IF seq = <<>> THEN <<f>>
    ELSE IF f.name <= Head(seq).name THEN <<f>> \o seq
    ELSE <<Head(seq)>> \o Insert(f, Tail(seq))

sorted_DirectoryOrder(seq) == seq

\* sorted(names): ascending by name
RECURSIVE sorted(_)
sorted(seq) ==
    IF seq = <<>> THEN <<>> ELSE Insert(Head(seq), sorted(Tail(seq)))

\* f.endswith('.py') and f != 'run_reports.py'
IsReportScript(f) == f.ext = "py" /\ f # DriverFile

Min(a, b) == IF a <= b THEN a ELSE b
Max(a, b) == IF a >= b THEN a ELSE b

\* a slice bound of a list of length n: negative bounds count from the end,
\* bounds outside the list are clipped
SliceBound(k, n) == IF k < 0 THEN Max(k + n, 0) ELSE Min(k, n)

\* seq[a:b]
Slice(seq, a, b) ==
    LET lo == SliceBound(a, Len(seq))
        hi == SliceBound(b, Len(seq))
    IN  IF lo < hi THEN SubSeq(seq, lo + 1, hi) ELSE <<>>

RunEvent(f, outcome) ==
    [event |-> "run", script |-> f.name, outcome |-> outcome, seconds |-> 0]

SleepEvent ==
    [event |-> "sleep", script |-> 0, outcome |-> "none",
     seconds |-> PAUSE_SECONDS]

ShouldWait_OnlyAfterSuccess(global_idx, n, outcome) ==
    global_idx < n - 1 /\ outcome = "ok"

\* if global_idx < len(all_scripts) - 1 (the outcome is not looked at)
ShouldWait(global_idx, n, outcome) == global_idx < n - 1

DriverExitStatus_FailsWithAJob(events) ==
    IF \E k \in 1 .. Len(events) : events[k].outcome = "failed" THEN 1 ELSE 0

\* main returns (CalledProcessError was caught in the loop): the interpreter
\* exits with status 0 whatever the jobs did
DriverExitStatus(events) == 0

InitBatch ==
    /\ script = "Tanmay"
    /\ pc = "start"
    /\ attempt = 0
    /\ attemptLog = <<>>
    /\ access_token = NoToken
    /\ calls = [s \in Stages |-> 0]
    /\ sleeps = 0
    /\ job_code = -1
    /\ content = "none"
    /\ file = "missing"
    /\ error = NoError
    /\ response = NoResponse
    /\ idx = 0
    /\ successful = 0
    /\ failed = 0
    /\ data = NoData
    /\ rendered = NoRender
    /\ recipients = <<>>
    /\ waits = 0
    /\ wait_time = 0
    /\ argv \in Arguments
    /\ listing \in Listings
    /\ dpc = "start"
    /\ start_idx = 0
    /\ end_idx = 0
    /\ all_scripts = <<>>
    /\ batch = <<>>
    /\ batch_i = 0
    /\ log = <<>>
    /\ exit_code = -1

\* run_reports.main up to the loop: arguments, job list, batch
select_batch ==
    /\ dpc = "start"
    /\ IF Len(argv) < 2
       THEN /\ dpc' = "usage"
            /\ exit_code' = 1
            /\ UNCHANGED <<start_idx, end_idx, all_scripts, batch>>
       ELSE IF ~IsInt(argv[1]) \/ ~IsInt(argv[2])
       THEN /\ dpc' = "ValueError"
            /\ exit_code' = 1
            /\ UNCHANGED <<start_idx, end_idx, all_scripts, batch>>
       ELSE /\ start_idx' = int(argv[1])
            /\ end_idx' = int(argv[2])
            /\ all_scripts' = sorted(SelectSeq(listing, IsReportScript))
            /\ batch' = Slice(all_scripts', start_idx', end_idx')
            /\ IF batch' = <<>>
               THEN dpc' = "done" /\ exit_code' = DriverExitStatus(log)
               ELSE dpc' = "run" /\ UNCHANGED exit_code
    /\ UNCHANGED <<argv, listing, batch_i, log>>
    /\ UNCHANGED runVars

\* the loop body up to the pause: subprocess.run(check=True) in try/except
\* CalledProcessError; the job's exit status is its outcome
execute_script ==
    /\ dpc = "run"
    /\ \E outcome \in {"ok", "failed"} :
         log' = Append(log, RunEvent(batch[batch_i + 1], outcome))
    /\ dpc' = "ran"
    /\ UNCHANGED <<argv, listing, start_idx, end_idx, all_scripts, batch,
                   batch_i, exit_code>>
    /\ UNCHANGED runVars

\* the end of the loop body: the pause, then the next item or the return
wait_before_next ==
    /\ dpc = "ran"
    /\ LET global_idx == start_idx + batch_i
       IN  IF ShouldWait(global_idx, Len(all_scripts), log[Len(log)].outcome)
           THEN log' = Append(log, SleepEvent)
           ELSE UNCHANGED log
    /\ batch_i' = batch_i + 1
    /\ IF batch_i + 1 < Len(batch)
       THEN dpc' = "run" /\ UNCHANGED exit_code
       ELSE dpc' = "done" /\ exit_code' = DriverExitStatus(log')
    /\ UNCHANGED <<argv, listing, start_idx, end_idx, all_scripts, batch>>
    /\ UNCHANGED runVars

NextBatch ==
    \/ select_batch
    \/ execute_script
    \/ wait_before_next

SpecBatch == InitBatch /\ [][NextBatch]_vars

(***************************************************************************)
(* Properties                                                              *)
(***************************************************************************)
LaterStages == {"analyse", "render", "upload", "send"}
TerminalCodeSeen == job_code \notin IN_PROGRESS \cup {-1}
PollRequestFailed ==
    pc = "failed" /\ error.stage = "poll"
    /\ error.type \in {"HTTPError", "RequestException"}
\* the export function came back to its caller with the downloaded artifact
ExportReturned ==
    /\ content # "none"
    /\ error.stage \notin {"token", "create", "poll", "download"}
JobFailureErrors == {Err("RuntimeError", c, "poll", 0) : c \in JobCodes}
Retryable(e) ==
    e.kind = "transport" \/ (e.kind = "http" /\ e.status = RATE_LIMITED)

\* C1: the download request is issued only if the most recently observed
\* job code is COMPLETED (1004); a run whose last observed code is anything
\* else ends without a download request.
C1_DownloadOnlyAfterCompleted ==
    calls["download"] > 0 => job_code = COMPLETED

\* C2: if all 120 polls report an in-progress code, the export ends with a
\* fatal timeout error that differs from the job-reported-failure error, and
\* no artifact is returned or written.
C2_PollDeadlineIsFatal ==
    (calls["poll"] = MAX_POLLS /\ job_code \in IN_PROGRESS /\ ~PollRequestFailed)
        => /\ pc = "failed"
           /\ error.stage = "poll"
           /\ error \notin JobFailureErrors
           /\ calls["download"] = 0
           /\ content = "none"

\* C3: the first job code outside {1001, 1002} is the last poll: the number
\* of polls is the number of in-progress observations plus that one poll, no
\* poll follows a terminal code, a COMPLETED code is followed by exactly one
\* download call whose 2xx answer makes the export return the artifact, and a
\* 5-second wait is taken only in a poll that observed an in-progress code.
C3_State ==
    /\ calls["poll"] = sleeps + (IF TerminalCodeSeen THEN 1 ELSE 0)
                              + (IF PollRequestFailed THEN 1 ELSE 0)
    /\ ~(TerminalCodeSeen /\ PollRequestFailed)
    /\ TerminalCodeSeen => pc # "poll"
    /\ calls["download"] <= 1
    /\ job_code = COMPLETED =>
          /\ calls["download"] = (IF pc = "download" THEN 0 ELSE 1)
          /\ pc # "download" =>
                \/ ExportReturned
                \/ /\ pc = "failed" /\ content = "none"
                   /\ response.stage = "download" /\ response.kind # "ok"
                   /\ error = RequestError(response, "download", 0)

C3_Step ==
    /\ calls'["poll"] # calls["poll"] =>
          (~TerminalCodeSeen /\ calls'["poll"] = calls["poll"] + 1)
    /\ sleeps' # sleeps =>
          /\ sleeps' = sleeps + 1
          /\ calls'["poll"] = calls["poll"] + 1
          /\ job_code' \in IN_PROGRESS

C3_PollsStopAtTerminalCode == []C3_State /\ [][C3_Step]_vars

\* in progress on polls 1-3, completed on poll 4: 4 polls, 1 download
C3_Witness ==
    /\ calls["poll"] = 4 /\ sleeps = 3 /\ job_code = COMPLETED
    /\ calls["download"] = 1 /\ content = "pdf" /\ pc \in {"verify", "analyse"}

\* C4: when every attempt of the token acquisition fails with a retryable
\* error (a transport failure or status 400), the grant exchange is invoked
\* exactly max_retries (5) times and the surfaced error is the 5th attempt's.
C4_ExhaustionSurfacesLastError ==
    (/\ pc = "failed" /\ error.stage = "token"
     /\ Len(attemptLog) = calls["token"]
     /\ \A i \in 1 .. Len(attemptLog) : Retryable(attemptLog[i]))
        => /\ calls["token"] = max_retries
           /\ error = RequestError(attemptLog[max_retries], "token", max_retries)

\* C5: a transport-level failure of the grant exchange on any attempt before
\* the last is retried, not surfaced, in every script.
C5_TransportFailureIsRetried ==
    \A i \in 1 .. Len(attemptLog) :
        (attemptLog[i].kind = "transport" /\ i < max_retries)
            => ~(pc = "failed" /\ error.stage = "token" /\ error.attempt = i)

\* C6: an HTTP error status other than 400 on any attempt of the token
\* acquisition ends the retry loop at once: that attempt is the last grant
\* exchange and its error is the one surfaced.
C6_OtherStatusIsFatalAtOnce ==
    \A i \in 1 .. Len(attemptLog) :
        (attemptLog[i].kind = "http" /\ attemptLog[i].status # RATE_LIMITED)
            => /\ i = Len(attemptLog)
               /\ calls["token"] = i
               /\ pc = "failed"
               /\ error = Err("HTTPError", attemptLog[i].status, "token", i)

\* status 429 on the 2nd of 5 attempts, after a retried 400
C6_Witness ==
    /\ pc = "failed" /\ calls["token"] = 2
    /\ error = Err("HTTPError", 429, "token", 2)
    /\ Len(attemptLog) = 2 /\ attemptLog[1].status = RATE_LIMITED

\* C7: a 2xx grant-exchange answer whose access-token field is absent or
\* empty is a fatal error without retry and returns no token, so every token
\* the token provider returns is a non-empty string.
C7_ReturnedTokenIsNonEmpty ==
    /\ access_token # ""
    /\ (pc = "failed" /\ error.stage = "token"
        /\ error.type \in {"KeyError", "ValueError"})
          => calls["token"] = error.attempt

\* C8: when the job reported COMPLETED and the download answered with an
\* empty body, no later stage (analysis, rendering, upload, send) runs, in
\* every pipeline.
C8_EmptyArtifactStopsTheRun ==
    (job_code = COMPLETED /\ content = "empty")
        => \A st \in LaterStages : calls[st] = 0

\* C9: job creation is one call without retry: a non-2xx answer to it ends
\* the export with that error after exactly one create call, and neither a
\* poll nor a download request is made.
C9_CreateFailureIsFatal ==
    /\ calls["create"] <= 1
    /\ (response.stage = "create" /\ response.kind = "http")
          => /\ pc = "failed"
             /\ error = Err("HTTPError", response.status, "create", 0)
    /\ (pc = "failed" /\ error.stage = "create")
          => /\ calls["create"] = 1
             /\ calls["poll"] = 0
             /\ calls["download"] = 0

C9_Witness ==
    /\ pc = "failed" /\ error = Err("HTTPError", 500, "create", 0)
    /\ response.stage = "create" /\ calls["create"] = 1

\* total_score / max_possible * 100, as a fixed-point percentage
RecomputedPercentage(d) ==
    (Get(d, "total_score", 0) * Percent(100)) \div Get(d, "max_possible", 100)

\* C10: the percentage the renderer shows and the overall tier it picks are
\* those of total_score / max_possible * 100 recomputed from the record's
\* totals, whatever the record's percentage field holds.
C10_PercentageIsRecomputed ==
    (rendered.built /\ TopKeys \subseteq DOMAIN data) =>
        /\ rendered.pct_text = Format1f(RecomputedPercentage(data))
        /\ rendered.status_text = StatusText(RecomputedPercentage(data))
        /\ rendered.banner_color = BannerColor(RecomputedPercentage(data))

\* the stages of a run in program order (verify is the file check of main)
StageOrder ==
    <<"token", "create", "poll", "download", "verify", "analyse", "render",
      "upload", "send">>

StageIndex(st) == CHOOSE i \in 1 .. Len(StageOrder) : StageOrder[i] = st

\* C18: the stages run in the order token, create, poll, download,
\* (analysis, render), upload, send; a stage starts only after its
\* predecessor completed successfully (the token was returned, the job was
\* created, the job was seen COMPLETED, the artifact was downloaded, the
\* record was extracted, the report was built, the media was uploaded), and
\* after a failed stage no later stage has run.
C18_StagesRunInOrder ==
    /\ calls["create"] > 0 => calls["token"] > 0 /\ access_token # NoToken
    /\ calls["poll"] > 0 => calls["create"] = 1
    /\ calls["download"] > 0 => calls["poll"] > 0 /\ job_code = COMPLETED
    /\ calls["analyse"] > 0
          => script = "Tanmay" /\ calls["download"] = 1 /\ content # "none"
    /\ calls["render"] > 0 => calls["analyse"] = 1 /\ data # NoData
    /\ calls["upload"] > 0
          => /\ calls["download"] = 1 /\ content # "none"
             /\ script = "Tanmay" => calls["render"] = 1 /\ rendered.built
             /\ script \in FileScripts => ~ExportFileBad(file)
    /\ calls["send"] > 0 => calls["upload"] = 1
    /\ pc = "failed"
          => \A st \in Stages :
                StageIndex(st) > StageIndex(error.stage) => calls[st] = 0

(***************************************************************************)
(* The rendered report (SpecRender)                                        *)
(***************************************************************************)
Has(seq, x) == \E i \in 1 .. Len(seq) : seq[i] = x

Position(seq, x) == CHOOSE i \in 1 .. Len(seq) : seq[i] = x

Count(seq, x) == Cardinality({i \in 1 .. Len(seq) : seq[i] = x})

\* C11: when the feedback section is not applicable, the rendered maximum is
\* 70 and the rendered percentage is total_score over 70, whatever
\* max_possible the record supplies; the adjusted-percentage note is part of
\* the feedback section only.
C11_NotApplicableIsScoredOutOf70 ==
    (/\ rendered.built /\ ~fb_applicable(data)
     /\ TopKeys \subseteq DOMAIN data
     /\ data["max_possible"] = 100
     /\ data["percentage"] = Percent(data["total_score"]))
        => /\ rendered.score_label = <<data["total_score"], 70>>
           /\ rendered.pct_text
                = Format1f((data["total_score"] * Percent(100)) \div 70)
           /\ rendered.fb_note # <<>>
           /\ Has(rendered.els, "fb_na_box")
           /\ Position(rendered.els, "fb_na_box")
                > Position(rendered.els, "3. CUSTOMER FEEDBACK")
           /\ Position(rendered.els, "fb_na_box")
                < Position(rendered.els, "4. REPEAT CALLS")

\* C12: the overall tier is a total three-way function of the percentage p:
\* EXCELLENT (green) iff p >= 80, ACCEPTABLE - IMPROVEMENT NEEDED (orange)
\* iff 70 <= p < 80, BELOW STANDARD - URGENT ACTION REQUIRED (red) iff p < 70.
C12_OverallTierIsThreeWay ==
    rendered.built =>
        LET p == Get(data, "percentage", 0)
            shown == <<rendered.status_text, rendered.banner_color>>
        IN  /\ shown = <<"EXCELLENT", "#27AE60">> <=> p >= 8000
            /\ shown = <<"ACCEPTABLE - IMPROVEMENT NEEDED", "#F39C12">>
                   <=> (p >= 7000 /\ p < 8000)
            /\ shown = <<"BELOW STANDARD - URGENT ACTION REQUIRED", "#E74C3C">>
                   <=> p < 7000

C12_Witness ==
    /\ rendered.built
    /\ Get(data, "percentage", 0) = 7000
    /\ rendered.status_text = "ACCEPTABLE - IMPROVEMENT NEEDED"

\* C13: the form-quality tier is critical iff score < 5, warning iff
\* 5 <= score < 8, good iff score >= 8, and the summary card (label and
\* colour), the detail heading colour and the critical banner all show the
\* tier of the record's score.
C13_FormQualityTierIsShownEverywhere ==
    rendered.built =>
        LET score == Get(Section(data, "form_quality"), "score", 0)
            tier == IF score < 5 THEN "critical"
                    ELSE IF score < 8 THEN "warning" ELSE "good"
            color == CASE tier = "critical" -> "#E74C3C"
                       [] tier = "warning" -> "#F39C12"
                       [] OTHER -> "#27AE60"
        IN  /\ rendered.cards.fq.status_txt = "CRITICAL" <=> tier = "critical"
            /\ rendered.cards.fq.status_txt = "GOOD" <=> tier = "good"
            /\ rendered.cards.fq.clr = color
            /\ rendered.fq_color = color
            /\ Has(rendered.els, "fq_critical_banner") <=> tier = "critical"

\* C14: the repeat-calls section shows the ZERO REPEAT CALLS banner and no
\* incident table iff repeat_calls.score equals repeat_calls.max_score;
\* otherwise the has-repeats banner with the record's count; the card's
\* PERFECT / HAS REPEATS label agrees with the section.
C14_PerfectIffScoreEqualsMaxScore ==
    rendered.built =>
        LET rc == Section(data, "repeat_calls")
            perfect == Get(rc, "score", 0) = Get(rc, "max_score", 30)
        IN  /\ perfect <=> /\ Has(rendered.els, "rc_zero_banner")
                           /\ ~Has(rendered.els, "calls_table")
            /\ ~perfect => /\ Has(rendered.els, "rc_repeat_banner")
                           /\ rendered.rc_count = Get(rc, "count", 0)
            /\ rendered.cards.rc.status_txt = "PERFECT"
                   <=> Has(rendered.els, "rc_zero_banner")
            /\ rendered.cards.rc.status_txt = "HAS REPEATS"
                   <=> Has(rendered.els, "rc_repeat_banner")

\* C15: a day entry is rendered with the red row background and the flag
\* ABSENT iff its status, compared without regard to case, is absent,
\* whatever its hours field holds, a missing one included.
C15_AbsentDaysAreFlagged ==
    rendered.built =>
        LET days == Get(Section(data, "working_hours"), "days", <<>>)
        IN  /\ Len(rendered.day_rows) = Len(days)
            /\ \A i \in 1 .. Len(days) :
                  LET absent == Get(days[i], "status", "")
                                    \in {"absent", "Absent", "ABSENT"}
                  IN  /\ rendered.day_rows[i].flag = <<"ABSENT">> <=> absent
                      /\ rendered.day_rows[i].bg = "#FFE5E5" <=> absent

C15_Witness ==
    /\ rendered.built
    /\ \E i \in 1 .. Len(rendered.day_rows) :
          LET day == data["working_hours"]["days"][i]
          IN  /\ Get(day, "status", "") = "Absent"
              /\ "hours" \notin DOMAIN day
              /\ rendered.day_rows[i].flag = <<"ABSENT">>
              /\ rendered.day_rows[i].bg = "#FFE5E5"

\* C16: every displayed week-over-week delta is current minus previous with
\* an explicit sign: the TOTAL row shows total_score - week1_total, the
\* working-hours and form-quality rows and the working-hours analysis show
\* score - week1_score; '+' for a delta >= 0 and '-' for a negative one.
C16_DeltasAreSignedCurrentMinusPrevious ==
    rendered.built =>
        LET Signed(x) == IF x >= 0 THEN <<"+", x>> ELSE <<"-", 0 - x>>
            wh == Section(data, "working_hours")
            fq == Section(data, "form_quality")
        IN  /\ rendered.cmp.total_change
                 = Signed(Get(data, "total_score", 0)
                          - Get(data, "week1_total", 0))
            /\ rendered.cmp.wh_change
                 = Signed(Get(wh, "score", 0) - Get(wh, "week1_score", 0))
            /\ rendered.cmp.fq_change
                 = Signed(Get(fq, "score", 0) - Get(fq, "week1_score", 0))
            /\ rendered.wh_analysis
                 = Signed(Get(wh, "score", 0) - Get(wh, "week1_score", 0))

C16_Witness ==
    /\ rendered.built
    /\ "week1_total" \in DOMAIN data
    /\ Get(data, "total_score", 0) < data["week1_total"]
    /\ rendered.cmp.total_change[1] = "-"

SectionHeadings ==
    <<"EXECUTIVE SUMMARY", "1. WORKING HOURS", "2. FORM QUALITY",
      "3. CUSTOMER FEEDBACK", "4. REPEAT CALLS">>

\* the record leaves out, or leaves empty, one of its optional lists
SomeListAbsent(d) ==
    \/ \E k \in {"strengths", "weaknesses"} : Get(d, k, <<>>) = <<>>
    \/ Get(Section(d, "working_hours"), "days", <<>>) = <<>>
    \/ Get(Section(d, "form_quality"), "examples", <<>>) = <<>>
    \/ Get(Section(d, "feedback"), "ratings", <<>>) = <<>>
    \/ Get(Section(d, "repeat_calls"), "calls", <<>>) = <<>>

\* every section heading once, in the fixed order
SectionsComplete(els) ==
    /\ \A i \in 1 .. Len(SectionHeadings) : Count(els, SectionHeadings[i]) = 1
    /\ \A i \in 1 .. Len(SectionHeadings) - 1 :
          Position(els, SectionHeadings[i])
              < Position(els, SectionHeadings[i + 1])

\* the blocks between the feedback heading and the repeat-calls heading
FeedbackSection(els) ==
    SubSeq(els, Position(els, "3. CUSTOMER FEEDBACK") + 1,
           Position(els, "4. REPEAT CALLS") - 1)

\* the renderer raised nothing of its own: the one failure left is the
\* write of the output file
RenderedOrWriteFailed ==
    \/ rendered.built /\ pc = "upload"
    \/ ~rendered.built /\ pc = "failed" /\ error.type = "OSError"

StatusClass(day) ==
    LET st == Get(day, "status", "")
    IN  IF st \in {"absent", "Absent", "ABSENT"} THEN "absent"
        ELSE IF st = "exceptional" THEN "exceptional"
        ELSE "normal"

\* C24: in the working-hours table rows of different status classes
\* (absent, exceptional, normal) never have the same background colour.
C24_StatusBackgroundsAreDistinct ==
    rendered.built =>
        LET days == Get(Section(data, "working_hours"), "days", <<>>)
        IN  \A a, b \in 1 .. Len(days) :
                StatusClass(days[a]) # StatusClass(days[b])
                    => rendered.day_rows[a].bg # rendered.day_rows[b].bg

(***************************************************************************)
(* The waits of the token loop (Spec), in tenths of a second               *)
(***************************************************************************)
\* C23: attempt 1 has no wait before it; the wait before attempt n
\* (2 <= n <= 5) is between 2^(n-1) + 0.5 and 2^(n-1) + 2 seconds; there is
\* exactly one wait before each attempt after the first and none after the
\* last attempt.
C23_BackoffWaits ==
    /\ calls["token"] <= 5
    /\ waits = (IF calls["token"] = 0 THEN 0 ELSE calls["token"] - 1)
    /\ calls["token"] <= 1 => wait_time = 0
    /\ \A n \in 2 .. 5 :
          calls["token"] = n
              => /\ wait_time >= (2 ^ (n - 1)) * 10 + 5
                 /\ wait_time <= (2 ^ (n - 1)) * 10 + 20

C23_Witness ==
    /\ calls["token"] = 5
    /\ pc = "failed"
    /\ waits = 4
    /\ wait_time = 180

(***************************************************************************)
(* Termination and request budget of the export (SpecFair)                 *)
(***************************************************************************)
ExportRunning == pc \in {"start", "token", "create", "poll", "download"}

ExportRequests ==
    calls["token"] + calls["create"] + calls["poll"] + calls["download"]

C25_State ==
    /\ calls["token"] <= 5
    /\ calls["create"] <= 1
    /\ calls["poll"] <= 120
    /\ calls["download"] <= 1
    /\ calls["create"] > 0 => access_token # NoToken

C25_Step ==
    /\ (ExportRunning /\ pc # "start") => ExportRequests' = ExportRequests + 1
    /\ access_token # NoToken
          => /\ access_token' = access_token
             /\ calls'["token"] = calls["token"]

\* C25: every export run terminates, after at most 5 grant-exchange
\* requests, 1 create call, 120 poll calls and 1 download call; every step
\* of the export is one of these requests; the access token is acquired once,
\* before the create call, and is neither replaced nor requested again.
C25_ExportTerminatesWithinBudget ==
    /\ []C25_State
    /\ [][C25_Step]_vars
    /\ <>(~ExportRunning)

C25_Witness ==
    /\ ~ExportRunning
    /\ pc # "failed"
    /\ calls["token"] = 5
    /\ calls["poll"] = 120
    /\ calls["download"] = 1

(***************************************************************************)
(* The delivery loop of engineer_working_hour (Spec)                       *)
(***************************************************************************)
\* C22: in the multi-recipient loop the artifact is uploaded exactly once
\* before any send; a send is attempted once for every recipient in list
\* order whatever the earlier sends did; successful + failed is always the
\* number of recipients attempted, and the list length at the end.
C22_EveryRecipientIsAttemptedOnce ==
    script = "EWH" =>
        /\ calls["upload"] <= 1
        /\ calls["send"] > 0 => calls["upload"] = 1
        /\ Len(recipients) <= NumRecipients
        /\ recipients = [k \in 1 .. Len(recipients) |-> k]
        /\ calls["send"] = Len(recipients)
        /\ successful + failed = Len(recipients)
        /\ pc = "failed" => error.stage # "send"
        /\ (pc = "send" /\ Len(recipients) < NumRecipients) => error = NoError
        /\ pc = "done" => /\ Len(recipients) = NumRecipients
                          /\ successful + failed = NumRecipients

C22_Witness ==
    /\ script = "EWH"
    /\ pc = "done"
    /\ recipients = [k \in 1 .. NumRecipients |-> k]
    /\ failed >= 1
    /\ successful >= 1

(***************************************************************************)
(* The batch driver (SpecBatch)                                            *)
(***************************************************************************)
\* the names of the jobs executed so far, in the order of execution
Executed ==
    LET runs == SelectSeq(log, LAMBDA e : e.event = "run")
    IN  [k \in 1 .. Len(runs) |-> runs[k].script]

\* the names of the report scripts in the directory
JobNames ==
    {listing[k].name : k \in {j \in 1 .. Len(listing) :
                                 /\ listing[j].ext = "py"
                                 /\ listing[j] # DriverFile}}

\* the jobs at positions [start, end) of the name-ordered list, positions
\* counted from 0, a negative index counted from the end of the list
SelectedJobs ==
    LET n == Cardinality(JobNames)
        Nth(k) == CHOOSE x \in JobNames :
                      Cardinality({y \in JobNames : y < x}) = k
        At(k) == IF k < 0 THEN (IF n + k < 0 THEN 0 ELSE n + k)
                 ELSE IF k > n THEN n ELSE k
        lo == At(int(argv[1]))
        hi == At(int(argv[2]))
    IN  [k \in 1 .. (IF hi > lo THEN hi - lo ELSE 0) |-> Nth(lo + k - 1)]

\* C19: the driver runs every job of the selected slice of the name-ordered
\* job list exactly once and in name order, whatever the outcomes: at every
\* moment the jobs executed are the first jobs of the slice, the driver does
\* not stop before the slice is exhausted, and it ends with the whole slice
\* executed.
C19_BatchRunsTheSliceInOrder ==
    dpc \in {"run", "ran", "done"} =>
        /\ Len(Executed) <= Len(SelectedJobs)
        /\ Executed = SubSeq(SelectedJobs, 1, Len(Executed))
        /\ dpc = "run" => Len(Executed) < Len(SelectedJobs)
        /\ dpc = "done" => Executed = SelectedJobs

C19_Witness ==
    /\ dpc = "done"
    /\ Len(Executed) >= 2
    /\ \E k \in 1 .. Len(log) - 1 : log[k].outcome = "failed"
    /\ SelectSeq(listing, IsReportScript) # all_scripts

\* C20: between two jobs of a batch the driver always takes the 15-minute
\* pause, whether the earlier job succeeded or failed: a job in the log is
\* followed by nothing or by the pause, and a job is started first in the
\* batch or right after a pause.
C20_PauseBetweenJobs ==
    /\ \A k \in 1 .. Len(log) - 1 :
          log[k].event = "run"
              => log[k + 1].event = "sleep" /\ log[k + 1].seconds = 15 * 60
    /\ (dpc = "run" /\ log # <<>>) => log[Len(log)].event = "sleep"

C20_Witness ==
    \E k \in 1 .. Len(log) - 2 :
        /\ log[k].event = "run" /\ log[k].outcome = "failed"
        /\ log[k + 1].event = "sleep"
        /\ log[k + 2].event = "run"

\* the index arguments are missing or are not integers
UsageError == Len(argv) < 2 \/ \E k \in 1 .. Len(argv) : argv[k] = "x"

DriverExited == exit_code # -1

\* C21: the driver exits with a non-zero status iff the index arguments are
\* missing or invalid, and then before any job was started; with valid
\* arguments it runs to the end and exits with status 0, also when jobs
\* failed or the slice is empty.
C21_NonZeroExitOnlyOnUsageError ==
    /\ DriverExited => (exit_code # 0 <=> UsageError)
    /\ (DriverExited /\ exit_code # 0) => log = <<>>
    /\ (dpc # "start" /\ UsageError) => DriverExited
    /\ (dpc = "done" /\ ~UsageError) => exit_code = 0

C21_Witness ==
    /\ dpc = "done"
    /\ exit_code = 0
    /\ \E k \in 1 .. Len(log) : log[k].outcome = "failed"

\* the job executed last is the last entry of the name-ordered job list
LastJobIsLastOfList ==
    \A x \in JobNames : x <= Executed[Len(Executed)]

\* C26: after the last job of a batch the driver takes the pause iff that
\* job is not the last entry of the whole name-ordered job list: a batch
\* that ends before the end of the list finishes with a trailing pause, a
\* batch that ends on the last job of the list finishes without one.
C26_TrailingPauseIffNotLastOfList ==
    (dpc = "done" /\ Executed # <<>>)
        => (log[Len(log)].event = "sleep" <=> ~LastJobIsLastOfList)

====
